---- MODULE Spec2Model ----
(***************************************************************************)
(* A model of the single-tree octree engine of src/src/TMROctree.c:        *)
(* the three constructors, refine, coarsen, findEnclosing,                 *)
(* findEnclosingRange and createNodes, over the octant algebra             *)
(* (getSibling, parent, childId, compare), the sorted octant array, the    *)
(* octant hash and the octant queue.                                       *)
(***************************************************************************)
EXTENDS Integers, Sequences, FiniteSets, TLC

(***************************************************************************)
(* Bounds of the model.                                                    *)
(***************************************************************************)
\* depth of the deepest octant level (TMR_MAX_LEVEL of the code, scaled)
TMR_MAX_LEVEL == 2
\* largest nrand handed to the random constructor
MaxRand == 2
\* largest value rand() % (1 << level) takes in the random constructor
MaxRandVal == 1
\* number of leaf splits used to enumerate the valid trees handed to the
\* from-array constructor
MaxSplits == 2
\* largest element array on which refine is called, and on which the calls
\* that set the order are tried
MaxRefineSize == 15
\* largest nrand of the trees on which single refine calls are tried
MaxRandRefine == 1
\* number of octants createRandomTrees draws in main()
MaxRandForest == 2
\* largest number of command-line arguments main() is run with
MaxArgs == 2

\* the most negative 32-bit integer; what 1 << 31 is in an int32_t
MinInt32 == -2147483647 - 1

(***************************************************************************)
(* Octants: (x, y, z, level, tag)                                          *)
(***************************************************************************)
RECURSIVE Pow2(_)
Pow2(n) == IF n <= 0 THEN 1 ELSE 2 * Pow2(n - 1)

hmax == Pow2(TMR_MAX_LEVEL)

\* what 1 << -1 can evaluate to
ShiftUB == {0, MinInt32}

\* 1 << n for n >= -1, ub being what the undefined shift gives
Shl1(n, ub) == IF n >= 0 THEN Pow2(n) ELSE ub

\* ii*h in 32-bit arithmetic
StepTimes(ii, h) ==
  IF h = MinInt32 THEN (IF ii % 2 = 1 THEN MinInt32 ELSE 0) ELSE ii * h

\* h = 1 << (TMR_MAX_LEVEL - level)
EdgeLen(level) == Pow2(TMR_MAX_LEVEL - level)

Oct(x, y, z, level) == [x |-> x, y |-> y, z |-> z, level |-> level, tag |-> 0]

\* (x & h) != 0 for a power of two h and x >= 0
BitSet(x, h) == (x \div h) % 2 = 1

\* TMROctant::getSibling(id, &sib)
getSibling(o, id) ==
  IF o.level = 0 THEN o
  ELSE LET h == EdgeLen(o.level)
           xr == IF BitSet(o.x, h) THEN o.x - h ELSE o.x
           yr == IF BitSet(o.y, h) THEN o.y - h ELSE o.y
           zr == IF BitSet(o.z, h) THEN o.z - h ELSE o.z
       IN [o EXCEPT !.x = IF id % 2 = 1 THEN xr + h ELSE xr,
                    !.y = IF (id \div 2) % 2 = 1 THEN yr + h ELSE yr,
                    !.z = IF (id \div 4) % 2 = 1 THEN zr + h ELSE zr]

\* TMROctant::parent(&p): coordinates masked to the 2h grid, level - 1
parent(o) ==
  LET h2 == 2 * EdgeLen(o.level)
  IN [o EXCEPT !.x = o.x - (o.x % h2), !.y = o.y - (o.y % h2),
               !.z = o.z - (o.z % h2), !.level = o.level - 1]

\* TMROctant::childId()
childId(o) ==
  LET h == EdgeLen(o.level)
  IN (IF BitSet(o.x, h) THEN 1 ELSE 0) + (IF BitSet(o.y, h) THEN 2 ELSE 0)
     + (IF BitSet(o.z, h) THEN 4 ELSE 0)

\* The coordinate as the unsigned 32-bit pattern compare() works on: the
\* low bits and the sign bit (bits between are zero in this model).
LowBits(c) == IF c < 0 THEN c - MinInt32 ELSE c
SignBit(c) == IF c < 0 THEN 1 ELSE 0

\* Bit-interleaved key of (x, y, z): x in bit 0, y in bit 1, z in bit 2, ...
RECURSIVE Interleave(_, _, _, _)
Interleave(x, y, z, nbits) ==
  IF nbits = 0 THEN 0
  ELSE (x % 2) + 2 * (y % 2) + 4 * (z % 2)
       + 8 * Interleave(x \div 2, y \div 2, z \div 2, nbits - 1)

\* the low bits a coordinate of this model has: up to
\* (1 << (TMR_MAX_LEVEL + 1)) * MaxRandVal
KeyBits == TMR_MAX_LEVEL + 1 + MaxRandVal

MortonKey(o) ==
  Interleave(LowBits(o.x), LowBits(o.y), LowBits(o.z), KeyBits)
  + Pow2(3 * KeyBits)
    * (SignBit(o.x) + 2 * SignBit(o.y) + 4 * SignBit(o.z))

\* TMROctant::compare(b): Morton order on (x, y, z), level as tie-breaker
\* (same origin: shallower first)
compare(a, b) ==
  LET ka == MortonKey(a)
      kb == MortonKey(b)
  IN IF ka # kb THEN ka - kb ELSE a.level - b.level

\* cube of b inside cube of a
contains(a, b) ==
  LET ha == EdgeLen(a.level)
      hb == EdgeLen(b.level)
  IN /\ a.x <= b.x /\ b.x + hb <= a.x + ha
     /\ a.y <= b.y /\ b.y + hb <= a.y + ha
     /\ a.z <= b.z /\ b.z + hb <= a.z + ha

(***************************************************************************)
(* TMROctantArray, TMROctantHash, TMROctantQueue                           *)
(***************************************************************************)
Range(s) == {s[i] : i \in 1..Len(s)}

\* compare(a, b) < 0 exactly when SortKey(a) < SortKey(b)
\* (levels from -1 to TMR_MAX_LEVEL + 1 occur)
SortKey(o) == MortonKey(o) * (TMR_MAX_LEVEL + 3) + (o.level + 1)

\* every SortKey lies in 0..MaxSortKey
MaxSortKey == 8 * Pow2(3 * KeyBits) * (TMR_MAX_LEVEL + 3)

\* a set of <<key, octant>> pairs with distinct keys in lo..hi as the
\* sequence of its octants, by key
RECURSIVE SortPairs(_, _, _)
SortPairs(P, lo, hi) ==
  IF P = {} THEN <<>>
  ELSE IF Cardinality(P) = 1 THEN <<(CHOOSE p \in P : TRUE)[2]>>
  ELSE LET mid == (lo + hi) \div 2
       IN SortPairs({p \in P : p[1] <= mid}, lo, mid)
          \o SortPairs({p \in P : p[1] > mid}, mid + 1, hi)

\* the entries of a set of octants in compare() order
SortSet(S) == SortPairs({<<SortKey(o), o>> : o \in S}, 0, MaxSortKey)

\* TMROctantArray::sort(): Morton order, entries that compare equal collapsed
sort(arr) == SortSet(Range(arr))

\* TMROctantHash::toArray(): a sorted unique array
hashToArray(hash) == SortSet(hash)

\* TMROctantQueue::push appends, TMROctantQueue::toArray() keeps the order
queuePush(queue, q) == Append(queue, q)

(***************************************************************************)
(* The octree: elements, nodes (present or NULL), order                    *)
(***************************************************************************)
VARIABLES
  alive,        \* the TMROctree object exists
  elements,     \* the element TMROctantArray, as a sequence
  has_nodes,    \* nodes != NULL
  nodes,        \* the node TMROctantArray, as a sequence
  order,        \* the polynomial order
  tags_set,     \* every element's tag holds its index in the array
  ret_tree,     \* the tree returned by the last call (coarsen)
  ret_find,     \* what the last findEnclosing / findEnclosingRange returned
  last,         \* the last call: its name, arguments and the array it saw
  prev,         \* the refine call coarsen() followed, if it followed one
  interp,       \* what the last createInterpolation call returned
  main,         \* the locals of main() of block_parallel.c and its position
  forest,       \* main()'s array forest[MAX_NUM_MESH]
  search        \* the locals of a findEnclosing call followed step by step

vars == <<alive, elements, has_nodes, nodes, order, tags_set, ret_tree,
          ret_find, last, prev, interp, main, forest, search>>

\* what a call on the tree leaves alone
rest_vars == <<interp, main, forest, search>>

\* what a statement of main() leaves alone
beside_main == <<alive, elements, has_nodes, nodes, order, tags_set, ret_tree,
                 ret_find, last, prev, interp, search>>

NoTree == [valid |-> FALSE, elements |-> <<>>, has_nodes |-> FALSE,
           nodes |-> <<>>, order |-> 0]
NoFind == [kind |-> "none", idx |-> 0, low |-> 0, high |-> 0]
NoOct == Oct(0, 0, 0, 0)
Call(op, pre, marks, mn, mx, n, oct) ==
  [op |-> op, pre |-> pre, marks |-> marks, min_level |-> mn,
   max_level |-> mx, n |-> n, oct |-> oct]
NoCall == Call("none", <<>>, <<>>, 0, 0, 0, NoOct)
NoInterp == [result |-> "none", rows |-> <<>>]
\* what is kept of the call before coarsen(): a refine
Earlier(c) == IF c.op = "refine" THEN c ELSE NoCall

\* the member num_elements: the current element count
num_elements == Len(elements)

(***************************************************************************)
(* TMROctree::TMROctree(int refine_level)                                  *)
(***************************************************************************)
UniformLevel(refine_level) ==
  IF refine_level < 0 THEN 0
  ELSE IF refine_level - 1 > TMR_MAX_LEVEL THEN TMR_MAX_LEVEL - 1
  ELSE refine_level

\* the loops with array[index].y = x
UniformArray_xy(level) ==
  LET h == EdgeLen(level)
      nx == Pow2(level)
  IN [index \in 1..(nx * nx * nx) |->
        Oct(h * ((index - 1) % nx), h * ((index - 1) % nx),
            h * ((index - 1) \div (nx * nx)), level)]

\* the array filled by the z, y, x loops, in loop order
UniformArray(level) ==
  LET h == EdgeLen(level)
      nx == Pow2(level)
  IN [index \in 1..(nx * nx * nx) |->
        Oct(h * ((index - 1) % nx), h * (((index - 1) \div nx) % nx),
            h * ((index - 1) \div (nx * nx)), level)]

\* h = 1 << (TMR_MAX_LEVEL - refine_level) shifts by a negative count
UniformUndefined(refine_level) ==
  TMR_MAX_LEVEL - UniformLevel(refine_level) < 0

\* the call does not return: the process ends and no tree exists
Crashed(call) ==
  /\ alive' = FALSE
  /\ elements' = <<>>
  /\ has_nodes' = FALSE
  /\ nodes' = <<>>
  /\ order' = 0
  /\ tags_set' = FALSE
  /\ ret_tree' = NoTree
  /\ ret_find' = NoFind
  /\ last' = [call EXCEPT !.op = "crash"]
  /\ prev' = NoCall

\* with h = 0 or h = INT_MIN the loops never leave x < hmax and index runs
\* past the nocts entries of the array
NewUniform(refine_level) ==
  /\ ~alive
  /\ UNCHANGED rest_vars
  /\ IF UniformUndefined(refine_level)
     THEN Crashed(Call("uniform", <<>>, <<>>, 0, 0, refine_level, NoOct))
     ELSE /\ alive' = TRUE
          /\ elements' = sort(UniformArray(UniformLevel(refine_level)))
          /\ has_nodes' = FALSE
          /\ nodes' = <<>>
          /\ order' = 2
          /\ tags_set' = FALSE
          /\ ret_tree' = NoTree
          /\ ret_find' = NoFind
          /\ last' = Call("uniform", <<>>, <<>>, 0, 0, refine_level, NoOct)
          /\ prev' = NoCall

(***************************************************************************)
(* TMROctree::TMROctree(int nrand, int min_level, int max_level)           *)
(***************************************************************************)
Min(a, b) == IF a < b THEN a ELSE b

\* the values min_level + (rand() % n), n = max_level - min_level + 1 # 0:
\* for n < 0 the remainder lies in 0..(-n - 1)
RandLevels(min_level, max_level) ==
  LET n == max_level - min_level + 1
  IN IF n > 0 THEN min_level..max_level
     ELSE min_level..(min_level - n - 1)

\* the values rand() % m takes for m # 0, up to MaxRandVal
RandMod(m) ==
  IF m < 0 THEN 0..MaxRandVal ELSE 0..Min(MaxRandVal, m - 1)

\* the octants one loop iteration can produce at level l: each of x, y, z
\* equal to h * (rand() % (1 << level))
RandOctantsAt(l, ub) ==
  LET h == Shl1(TMR_MAX_LEVEL - l, ub)
  IN {Oct(StepTimes(a, h), StepTimes(b, h), StepTimes(c, h), l) :
        a, b, c \in RandMod(Shl1(l, ub))}

\* a remainder by zero: rand() % (max_level - min_level + 1) or
\* rand() % (1 << level)
RandDivZero(min_level, max_level, ub) ==
  \/ max_level - min_level + 1 = 0
  \/ \E l \in RandLevels(min_level, max_level) : Shl1(l, ub) = 0

\* the octants one loop iteration can produce
RandOctantsUB(min_level, max_level, ub) ==
  UNION {RandOctantsAt(l, ub) :
           l \in {k \in RandLevels(min_level, max_level) : Shl1(k, ub) # 0}}

\* some level the loop can draw makes 1 << (TMR_MAX_LEVEL - level) or
\* 1 << level shift by a negative count
RandUndefined(min_level, max_level) ==
  \E l \in RandLevels(min_level, max_level) : l < 0 \/ l > TMR_MAX_LEVEL

\* new TMROctant[nrand] throws for nrand < 0; a remainder by zero traps
NewRandom(nrand, min_level, max_level) ==
  /\ ~alive
  /\ UNCHANGED rest_vars
  /\ \E ub \in IF RandUndefined(min_level, max_level) THEN ShiftUB ELSE {0} :
       \/ /\ nrand < 0 \/ (nrand > 0 /\ RandDivZero(min_level, max_level, ub))
          /\ Crashed(Call("random", <<>>, <<>>, min_level, max_level, nrand,
                          NoOct))
       \/ /\ nrand >= 0
          /\ max_level - min_level + 1 # 0 \/ nrand = 0
          /\ \E array \in [1..nrand ->
                             IF nrand = 0 THEN {}
                             ELSE RandOctantsUB(min_level, max_level, ub)] :
               elements' = sort(array)
          /\ alive' = TRUE
          /\ has_nodes' = FALSE
          /\ nodes' = <<>>
          /\ order' = 2
          /\ tags_set' = FALSE
          /\ ret_tree' = NoTree
          /\ ret_find' = NoFind
          /\ last' = Call("random", <<>>, <<>>, min_level, max_level, nrand,
                          NoOct)
          /\ prev' = NoCall

(***************************************************************************)
(* TMROctree::TMROctree(TMROctantArray *_elements)                         *)
(***************************************************************************)
\* the constructor without its sort() call
TreeFromArray_unsorted(arr) ==
  [valid |-> TRUE, elements |-> arr, has_nodes |-> FALSE,
   nodes |-> <<>>, order |-> 2]

\* the constructor without nodes = NULL: the pointer holds whatever it held
TreeFromArray_nodes(arr) ==
  [valid |-> TRUE, elements |-> sort(arr), has_nodes |-> TRUE,
   nodes |-> <<>>, order |-> 2]

\* the fields of a tree built from an array
TreeFromArray(arr) ==
  [valid |-> TRUE, elements |-> sort(arr), has_nodes |-> FALSE,
   nodes |-> <<>>, order |-> 2]

\* tagged: the caller wrote into every entry's tag its index in arr; the
\* tags still hold the indices after sort() when arr was sorted and unique
NewFromArray(arr, tagged) ==
  /\ ~alive
  /\ UNCHANGED rest_vars
  /\ alive' = TRUE
  /\ elements' = TreeFromArray(arr).elements
  /\ has_nodes' = TreeFromArray(arr).has_nodes
  /\ nodes' = TreeFromArray(arr).nodes
  /\ order' = TreeFromArray(arr).order
  /\ tags_set' = (tagged /\ TreeFromArray(arr).elements = arr)
  /\ ret_tree' = NoTree
  /\ ret_find' = NoFind
  /\ last' = Call("array", arr, <<>>, 0, 0, 0, NoOct)
  /\ prev' = NoCall

(***************************************************************************)
(* TMROctree::~TMROctree()                                                 *)
(***************************************************************************)
Delete ==
  /\ alive
  /\ UNCHANGED rest_vars
  /\ alive' = FALSE
  /\ elements' = <<>>
  /\ has_nodes' = FALSE
  /\ nodes' = <<>>
  /\ order' = 0
  /\ tags_set' = FALSE
  /\ ret_tree' = NoTree
  /\ ret_find' = NoFind
  /\ last' = NoCall
  /\ prev' = NoCall

(***************************************************************************)
(* TMROctree::refine(refinement, min_level, max_level)                     *)
(***************************************************************************)
\* the limits after the consistency adjustments
RefineMin(min_level, max_level) ==
  LET mn == IF min_level < 0 THEN 0 ELSE min_level
      mx == IF max_level > TMR_MAX_LEVEL THEN TMR_MAX_LEVEL ELSE max_level
  IN IF mn > mx THEN mx ELSE mn
RefineMax(max_level) ==
  IF max_level > TMR_MAX_LEVEL THEN TMR_MAX_LEVEL ELSE max_level

\* the first loop with the split branch starting from the 0-sibling, as
\* the other two branches do
RefineSeed_sibling(e, mark, mn, mx) ==
  IF mark = 0 THEN getSibling(e, 0)
  ELSE IF mark < 0
       THEN IF e.level > mn
            THEN [getSibling(e, 0) EXCEPT !.level = e.level - 1]
            ELSE e
       ELSE IF e.level < mx
            THEN [getSibling(e, 0) EXCEPT !.level = e.level + 1]
            ELSE e

\* the first loop with level >= min_level as the test of the parent branch
RefineSeed_ge(e, mark, mn, mx) ==
  IF mark = 0 THEN getSibling(e, 0)
  ELSE IF mark < 0
       THEN IF e.level >= mn
            THEN [getSibling(e, 0) EXCEPT !.level = e.level - 1]
            ELSE e
       ELSE IF e.level < mx
            THEN [e EXCEPT !.level = e.level + 1]
            ELSE e

\* the first loop with level > 0 as the test of the parent branch
RefineSeed_root(e, mark, mn, mx) ==
  IF mark = 0 THEN getSibling(e, 0)
  ELSE IF mark < 0
       THEN IF e.level > 0
            THEN [getSibling(e, 0) EXCEPT !.level = e.level - 1]
            ELSE e
       ELSE IF e.level < mx
            THEN [e EXCEPT !.level = e.level + 1]
            ELSE e

\* the first loop with level <= max_level as the test of the split branch
RefineSeed_le(e, mark, mn, mx) ==
  IF mark = 0 THEN getSibling(e, 0)
  ELSE IF mark < 0
       THEN IF e.level > mn
            THEN [getSibling(e, 0) EXCEPT !.level = e.level - 1]
            ELSE e
       ELSE IF e.level <= mx
            THEN [e EXCEPT !.level = e.level + 1]
            ELSE e

\* the octant the first loop adds to the hash for element i
RefineSeed(e, mark, mn, mx) ==
  IF mark = 0 THEN getSibling(e, 0)
  ELSE IF mark < 0
       THEN IF e.level > mn
            THEN [getSibling(e, 0) EXCEPT !.level = e.level - 1]
            ELSE e
       ELSE IF e.level < mx
            THEN [e EXCEPT !.level = e.level + 1]
            ELSE e

InDomain(q) ==
  /\ q.x >= 0 /\ q.x < hmax
  /\ q.y >= 0 /\ q.y < hmax
  /\ q.z >= 0 /\ q.z < hmax

\* the second loop: the siblings of every entry of child0_elems that lie
\* inside the domain
RefineSiblings(child0_elems) ==
  {q \in {getSibling(child0_elems[i], j) :
            i \in 1..Len(child0_elems), j \in 0..7} : InDomain(q)}

\* the new element array
RefineArray(array, refinement, min_level, max_level) ==
  LET mn == RefineMin(min_level, max_level)
      mx == RefineMax(max_level)
      hash0 == {RefineSeed(array[i], refinement[i], mn, mx) :
                  i \in 1..Len(array)}
      child0_elems == hashToArray(hash0)
      \* toArray() left the hash empty
      hash1 == RefineSiblings(child0_elems)
  IN sort(hashToArray(hash1))

Refine(refinement, min_level, max_level) ==
  /\ alive
  /\ UNCHANGED rest_vars
  /\ Len(elements) <= MaxRefineSize
  /\ has_nodes' = FALSE
  /\ nodes' = <<>>
  /\ elements' = RefineArray(elements, refinement, min_level, max_level)
  /\ tags_set' = FALSE
  /\ ret_tree' = NoTree
  /\ ret_find' = NoFind
  /\ last' = Call("refine", elements, refinement, min_level, max_level,
                  IF has_nodes THEN 1 ELSE 0, NoOct)
  /\ prev' = NoCall
  /\ UNCHANGED <<alive, order>>

(***************************************************************************)
(* TMROctree::coarsen()                                                    *)
(***************************************************************************)
\* the test of one loop iteration at array[i], array indexed from 0 as in
\* the code
SameParent_first(array, i) ==
  LET size == Len(array)
      offset == 7
  IN /\ array[i + 1].level > 0
     /\ childId(array[i + 1]) = 0
     /\ i + offset < size

SameParent(array, i) ==
  LET size == Len(array)
      offset == 7
  IN /\ array[i + 1].level > 0
     /\ childId(array[i + 1]) = 0
     /\ i + offset < size
     /\ childId(array[i + offset + 1]) = offset
     /\ compare(array[i + 1], getSibling(array[i + offset + 1], 0)) = 0

\* the loop iterations that start at an index in i..(stop - 1), the first one
\* at i: what they push on the queue and the index the loop is at after
\* them (the iterations in order, the range halved to keep evaluation flat)
RECURSIVE CoarsenSteps(_, _, _)
CoarsenSteps(array, i, stop) ==
  IF i >= stop THEN [queue |-> <<>>, i |-> i]
  ELSE IF stop - i = 1
       THEN IF SameParent(array, i)
            THEN [queue |-> queuePush(<<>>, parent(array[i + 1])),
                  i |-> i + 7 + 1]
            ELSE [queue |-> queuePush(<<>>, array[i + 1]), i |-> i + 1]
       ELSE LET first == CoarsenSteps(array, i, i + (stop - i) \div 2)
                rest == CoarsenSteps(array, first.i, stop)
            IN [queue |-> first.queue \o rest.queue, i |-> rest.i]

\* the scan over array[i..]; the result is the queue
CoarsenScan(array, i, queue) ==
  queue \o CoarsenSteps(array, i, Len(array)).queue

\* the tree coarsen() returns
CoarsenTree(array) == TreeFromArray(CoarsenScan(array, 0, <<>>))

Coarsen ==
  /\ alive
  /\ UNCHANGED rest_vars
  /\ ret_tree' = CoarsenTree(elements)
  /\ ret_find' = NoFind
  /\ last' = Call("coarsen", elements, <<>>, 0, 0, 0, NoOct)
  /\ prev' = Earlier(last)
  /\ UNCHANGED <<alive, elements, has_nodes, nodes, order, tags_set>>

\* the caller drops this tree and goes on with the tree coarsen() returned
Descend ==
  /\ alive
  /\ UNCHANGED rest_vars
  /\ ret_tree.valid
  /\ elements' = ret_tree.elements
  /\ has_nodes' = ret_tree.has_nodes
  /\ nodes' = ret_tree.nodes
  /\ order' = ret_tree.order
  /\ tags_set' = FALSE
  /\ ret_tree' = NoTree
  /\ ret_find' = NoFind
  /\ last' = Call("descend", <<>>, <<>>, 0, 0, 0, NoOct)
  /\ prev' = NoCall
  /\ UNCHANGED alive

(***************************************************************************)
(* TMROctree::findEnclosing(oct)                                           *)
(***************************************************************************)
\* (int)(n/2) of C: truncation towards zero
CDiv2(n) == IF n >= 0 THEN n \div 2 ELSE -((-n) \div 2)

\* the test "elems[k] contains the provided octant"
Encloses(e, oct) ==
  LET hoct == EdgeLen(oct.level)
      h == EdgeLen(e.level)
  IN /\ e.x <= oct.x /\ oct.x + hoct <= e.x + h
     /\ e.y <= oct.y /\ oct.y + hoct <= e.y + h
     /\ e.z <= oct.z /\ oct.z + hoct <= e.z + h

InArray(elems, k) == k >= 0 /\ k < Len(elems)

Found(k) == [kind |-> "elem", idx |-> k, low |-> 0, high |-> 0]
NotFound == [kind |-> "null", idx |-> 0, low |-> 0, high |-> 0]
\* the call read elems[k] with k outside the array
OutOfBounds(k) == [kind |-> "oob", idx |-> k, low |-> 0, high |-> 0]

\* the two tests after the loop
FindTail(elems, oct, low, mid) ==
  IF ~InArray(elems, mid) THEN OutOfBounds(mid)
  ELSE IF Encloses(elems[mid + 1], oct) THEN Found(mid)
  ELSE IF ~InArray(elems, low) THEN OutOfBounds(low)
  ELSE IF Encloses(elems[low + 1], oct) THEN Found(low)
  ELSE NotFound

\* the loop while (high != mid)
RECURSIVE FindLoop(_, _, _, _, _)
FindLoop(elems, oct, low, high, mid) ==
  IF high = mid THEN FindTail(elems, oct, low, mid)
  ELSE IF ~InArray(elems, mid) THEN OutOfBounds(mid)
  ELSE IF Encloses(elems[mid + 1], oct) THEN Found(mid)
  ELSE LET less == compare(oct, elems[mid + 1]) < 0
           nhigh == IF less THEN mid - 1 ELSE high
           nlow == IF less THEN low ELSE mid + 1
       IN FindLoop(elems, oct, nlow, nhigh, nhigh - CDiv2(nhigh - nlow))

findEnclosing(elems, oct) ==
  LET low == 0
      high == Len(elems) - 1
  IN FindLoop(elems, oct, low, high, low + CDiv2(high - low))

\* what a call that read outside the array can hand back: NULL, a pointer
\* to whatever lies outside the array, or no return at all
OobOutcomes == {"null", "wild", "crash"}

\* the values findEnclosing(oct) can return
FindResults(elems, oct) ==
  LET r == findEnclosing(elems, oct)
  IN IF r.kind = "oob" THEN {[r EXCEPT !.kind = k] : k \in OobOutcomes}
     ELSE {r}

FindEnclosing(oct) ==
  /\ alive
  /\ UNCHANGED rest_vars
  /\ ret_find' \in FindResults(elements, oct)
  /\ ret_tree' = NoTree
  /\ last' = Call("findEnclosing", elements, <<>>, 0, 0, 0, oct)
  /\ prev' = NoCall
  /\ UNCHANGED <<alive, elements, has_nodes, nodes, order, tags_set>>

\* findEnclosing(oct) statement by statement. The call begins: low = 0,
\* high = size-1, mid = low + (int)((high - low)/2). outside is what a read
\* of elems[k] with k outside the array does during this call: it stops the
\* process, or it returns the octant that memory holds
SearchStart(oct) ==
  /\ alive
  /\ search.pc = "idle"
  /\ \E trap \in BOOLEAN,
        held \in {Oct(0, 0, 0, 0), Oct(0, 0, 0, TMR_MAX_LEVEL),
                  Oct(hmax - 1, hmax - 1, hmax - 1, TMR_MAX_LEVEL)} :
       search' = [pc |-> "loop", oct |-> oct, low |-> 0,
                  high |-> Len(elements) - 1,
                  mid |-> 0 + CDiv2((Len(elements) - 1) - 0),
                  outside |-> [trap |-> trap,
                               oct |-> IF trap THEN NoOct ELSE held],
                  ret |-> NoFind]
  /\ UNCHANGED <<alive, elements, has_nodes, nodes, order, tags_set, ret_tree,
                 ret_find, last, prev, interp, main, forest>>

\* one turn of while (high != mid), or the statements after the loop
SearchStep ==
  LET elems == elements
      oct == search.oct
      low == search.low
      high == search.high
      mid == search.mid
      Traps(k) == ~InArray(elems, k) /\ search.outside.trap
      Read(k) == IF InArray(elems, k) THEN elems[k + 1]
                 ELSE search.outside.oct
      Goes(nlow, nhigh, nmid) ==
        /\ search' = [search EXCEPT !.low = nlow, !.high = nhigh,
                                    !.mid = nmid]
        /\ UNCHANGED <<ret_find, last>>
      LeavesLoop ==
        /\ search' = [search EXCEPT !.pc = "tail"]
        /\ UNCHANGED <<ret_find, last>>
      Crashes ==
        /\ search' = [search EXCEPT !.pc = "crash"]
        /\ UNCHANGED <<ret_find, last>>
      \* return &elems[k], or return NULL for k = -1 after the last test
      Returns(r) ==
        /\ search' = [pc |-> "idle", oct |-> NoOct, low |-> 0, high |-> 0,
                      mid |-> 0, outside |-> [trap |-> FALSE, oct |-> NoOct],
                      ret |-> NoFind]
        /\ ret_find' = r
        /\ last' = Call("findEnclosing", elements, <<>>, 0, 0, 0, oct)
      At(k) == IF InArray(elems, k) THEN Found(k)
               ELSE [kind |-> "wild", idx |-> k, low |-> 0, high |-> 0]
  IN /\ alive
     /\ search.pc \in {"loop", "tail"}
     /\ IF search.pc = "loop"
        THEN IF high = mid THEN LeavesLoop
             ELSE IF Traps(mid) THEN Crashes
             ELSE IF Encloses(Read(mid), oct) THEN Returns(At(mid))
             ELSE IF compare(oct, Read(mid)) < 0
             THEN Goes(low, mid - 1, (mid - 1) - CDiv2((mid - 1) - low))
             ELSE Goes(mid + 1, high, high - CDiv2(high - (mid + 1)))
        ELSE IF Traps(mid) THEN Crashes
             ELSE IF Encloses(Read(mid), oct) THEN Returns(At(mid))
             ELSE IF Traps(low) THEN Crashes
             ELSE IF Encloses(Read(low), oct) THEN Returns(At(low))
             ELSE Returns(NotFound)
     /\ UNCHANGED <<alive, elements, has_nodes, nodes, order, tags_set,
                    ret_tree, prev, interp, main, forest>>

(***************************************************************************)
(* TMROctree::findEnclosingRange(oct, &low, &high)                         *)
(***************************************************************************)
\* what an element tag that was never written, or the tag read through a
\* pointer outside the array, can hold
GarbageTags == {-1, 0, 1}

\* the values elow->tag can take for a returned pointer r
TagsOf(r) ==
  IF r.kind = "elem" /\ tags_set THEN {r.idx} ELSE GarbageTags

\* the call with *high = ehigh->tag
RangeResults_tag(elems, oct) ==
  LET h == EdgeLen(oct.level)
      p == [oct EXCEPT !.level = TMR_MAX_LEVEL]
      q == [p EXCEPT !.x = p.x + h - 1, !.y = p.y + h - 1, !.z = p.z + h - 1]
  IN {[kind |-> "range", idx |-> 0, low |-> lo, high |-> hi] :
        <<lo, hi>> \in
          UNION {{<<lo, hi>> :
                    lo \in IF elow.kind = "null" THEN {0} ELSE TagsOf(elow),
                    hi \in IF ehigh.kind = "null" THEN {Len(elems)}
                           ELSE TagsOf(ehigh)} :
                 elow \in {r \in FindResults(elems, p) : r.kind # "crash"},
                 ehigh \in {r \in FindResults(elems, q) : r.kind # "crash"}}}

\* the (low, high) pairs the call can write, none when it does not return
RangeResults(elems, oct) ==
  LET h == EdgeLen(oct.level)
      p == [oct EXCEPT !.level = TMR_MAX_LEVEL]
      q == [p EXCEPT !.x = p.x + h - 1, !.y = p.y + h - 1, !.z = p.z + h - 1]
  IN {[kind |-> "range", idx |-> 0, low |-> lo, high |-> hi] :
        <<lo, hi>> \in
          UNION {{<<lo, hi>> :
                    lo \in IF elow.kind = "null" THEN {0} ELSE TagsOf(elow),
                    hi \in IF ehigh.kind = "null" THEN {Len(elems)}
                           ELSE {t + 1 : t \in TagsOf(ehigh)}} :
                 elow \in {r \in FindResults(elems, p) : r.kind # "crash"},
                 ehigh \in {r \in FindResults(elems, q) : r.kind # "crash"}}}

FindEnclosingRange(oct) ==
  /\ alive
  /\ UNCHANGED rest_vars
  /\ ret_find' \in RangeResults(elements, oct)
  /\ ret_tree' = NoTree
  /\ last' = Call("findEnclosingRange", elements, <<>>, 0, 0, 0, oct)
  /\ prev' = NoCall
  /\ UNCHANGED <<alive, elements, has_nodes, nodes, order, tags_set>>

(***************************************************************************)
(* TMROctree::createNodes(_order)                                          *)
(***************************************************************************)
\* createNodes without its test order > 3
ClampOrder_low(_order) ==
  IF _order < 2 THEN 2 ELSE _order

ClampOrder(_order) ==
  IF _order < 2 THEN 2 ELSE IF _order > 3 THEN 3 ELSE _order

\* the step h between the nodes of an element
NodeStep(level, ord, ub) ==
  IF ord = 2 THEN EdgeLen(level)
  ELSE IF TMR_MAX_LEVEL - level - 1 >= 0
       THEN Pow2(TMR_MAX_LEVEL - level - 1)
       ELSE ub

Node(x, y, z) == [x |-> x, y |-> y, z |-> z, level |-> 0, tag |-> 1]

\* all_nodes, in the order the loops fill it
AllNodes(array, ord, ub) ==
  LET n3 == ord * ord * ord
  IN [index \in 1..(n3 * Len(array)) |->
        LET e == array[((index - 1) \div n3) + 1]
            r == (index - 1) % n3
            h == NodeStep(e.level, ord, ub)
        IN Node(e.x + StepTimes(r % ord, h),
                e.y + StepTimes((r \div ord) % ord, h),
                e.z + StepTimes(r \div (ord * ord), h))]

\* createNodes without its sort() call: all_nodes as the loops filled it
NodeArray_unsorted(array, ord, ub) == AllNodes(array, ord, ub)

\* the node array createNodes leaves
NodeArray(array, ord, ub) == sort(AllNodes(array, ord, ub))

\* some element makes createNodes shift by a negative count
ShiftUndefined(array, ord) ==
  ord = 3 /\ \E i \in 1..Len(array) : array[i].level >= TMR_MAX_LEVEL

CreateNodes(_order) ==
  /\ alive
  /\ UNCHANGED rest_vars
  /\ order' = ClampOrder(_order)
  /\ has_nodes' = TRUE
  /\ \E ub \in IF ShiftUndefined(elements, ClampOrder(_order))
                THEN ShiftUB ELSE {0} :
       nodes' = NodeArray(elements, ClampOrder(_order), ub)
  /\ ret_tree' = NoTree
  /\ ret_find' = NoFind
  /\ last' = Call("createNodes", elements, <<>>, 0, 0, _order, NoOct)
  /\ prev' = NoCall
  /\ UNCHANGED <<alive, elements, tags_set>>

(***************************************************************************)
(* TMROctree::createMesh(_order), the reference implementation: the part   *)
(* that sets the level of each node                                        *)
(***************************************************************************)
\* the index in the node array of the node at (x, y, z), 0 for NULL
\* (TMROctantArray::contains with use_nodes)
NodeAt(nds, x, y, z) ==
  LET found == {i \in 1..Len(nds) :
                  nds[i].x = x /\ nds[i].y = y /\ nds[i].z = z}
  IN IF found = {} THEN 0 ELSE CHOOSE i \in found : TRUE

\* n is one of the order^3 node positions of the element e
IsNodeOf(n, e, ord, ub) ==
  LET h == NodeStep(e.level, ord, ub)
      \* c is one of the positions e0 + ii*h, ii < ord, along one axis
      OnStep(c, e0) == \E ii \in 0..(ord - 1) : c = e0 + StepTimes(ii, h)
  IN OnStep(n.x, e.x) /\ OnStep(n.y, e.y) /\ OnStep(n.z, e.z)

\* if (array[i].level > t->level) t->level = array[i].level, over all
\* elements and all of their node positions
MeshLevels(nds, array, ord, ub) ==
  LET Max(S) == CHOOSE m \in S : \A k \in S : k <= m
  IN
  [i \in 1..Len(nds) |->
     [nds[i] EXCEPT !.level =
        Max({@} \cup {array[j].level :
                        j \in {k \in 1..Len(array) :
                                 IsNodeOf(nds[i], array[k], ord, ub)}})]]

CreateMesh(_order) ==
  /\ alive
  /\ UNCHANGED rest_vars
  /\ LET ord == IF has_nodes THEN order ELSE ClampOrder(_order)
     IN /\ order' = ord
        /\ \E ub \in IF ShiftUndefined(elements, ord) THEN ShiftUB ELSE {0} :
             nodes' = MeshLevels(IF has_nodes THEN nodes
                                 ELSE NodeArray(elements, ord, ub),
                                 elements, ord, ub)
  /\ has_nodes' = TRUE
  /\ ret_find' = NoFind
  /\ last' = Call("createMesh", elements, <<>>, 0, 0, _order, NoOct)
  /\ prev' = NoCall
  /\ UNCHANGED <<alive, elements, tags_set, ret_tree>>

(***************************************************************************)
(* Node numbering and the dependent-node table of a tree                   *)
(***************************************************************************)
\* the elements on whose face or edge the node hangs: it lies on the
\* element and is none of the element's nodes
Hosts(n, array, ord) ==
  LET \* the node lies in the closed cube of e
      InCube(e) ==
        /\ e.x <= n.x /\ n.x <= e.x + EdgeLen(e.level)
        /\ e.y <= n.y /\ n.y <= e.y + EdgeLen(e.level)
        /\ e.z <= n.z /\ n.z <= e.z + EdgeLen(e.level)
  IN {j \in 1..Len(array) :
        InCube(array[j]) /\ ~IsNodeOf(n, array[j], ord, 0)}

\* the indices of the dependent nodes
DepNodes(nds, array, ord) ==
  {i \in 1..Len(nds) : Hosts(nds[i], array, ord) # {}}

\* independent nodes get the ids 0, 1, ... in array order, the dependent
\* node d gets -(d+1)
NumberedNodes(nds, array, ord) ==
  LET dep == DepNodes(nds, array, ord)
  IN [i \in 1..Len(nds) |->
        [nds[i] EXCEPT !.tag =
           IF i \in dep
           THEN -(Cardinality({j \in dep : j < i}) + 1)
           ELSE Cardinality({j \in 1..(i - 1) : j \notin dep})]]

\* weights are counted in units: a shape function value along one axis in
\* AxisOne-ths, a dependent weight in DepOne-ths, an interpolation weight in
\* WeightOne-ths
AxisOne == hmax * hmax
DepOne == AxisOne * AxisOne * AxisOne
WeightOne == 8 * DepOne

\* the shape function of node ii of an element edge of length h, at distance
\* d from the edge's origin: linear for order 2, quadratic for order 3
Shape(ii, d, h, ord) ==
  LET s == hmax \div h
  IN IF ord = 2
     THEN (IF ii = 0 THEN (h - d) ELSE d) * s * hmax
     ELSE (IF ii = 0 THEN (h - d) * (h - 2 * d)
           ELSE IF ii = 1 THEN 4 * d * (h - d)
           ELSE d * (2 * d - h)) * s * s

\* the parents of the dependent node n on the element e with their weights,
\* by parent id: the nodes of e where the shape function does not vanish
DepRow(n, e, nds, ord) ==
  LET h == EdgeLen(e.level)
      step == NodeStep(e.level, ord, 0)
      id(t) == nds[NodeAt(nds, e.x + t[1] * step, e.y + t[2] * step,
                          e.z + t[3] * step)].tag
      w(t) == Shape(t[1], n.x - e.x, h, ord) * Shape(t[2], n.y - e.y, h, ord)
              * Shape(t[3], n.z - e.z, h, ord)
      parents == {t \in (0..(ord - 1)) \X (0..(ord - 1)) \X (0..(ord - 1)) :
                    w(t) # 0}
  IN SortPairs({<<id(t), <<id(t), w(t)>>>> : t \in parents},
               -Len(nds) - 1, Len(nds))

\* dep_conn and dep_weights between dep_ptr[d] and dep_ptr[d+1]
DepTableRow(nds, array, ord, d) ==
  LET i == CHOOSE k \in 1..Len(nds) : nds[k].tag = -(d + 1)
      hosts == Hosts(nds[i], array, ord)
      j == CHOOSE k \in hosts : \A m \in hosts : k <= m
  IN DepRow(nds[i], array[j], nds, ord)

NumberNodes ==
  /\ alive
  /\ has_nodes
  /\ UNCHANGED rest_vars
  /\ nodes' = NumberedNodes(nodes, elements, order)
  /\ ret_find' = NoFind
  /\ last' = Call("numberNodes", elements, <<>>, 0, 0, 0, NoOct)
  /\ prev' = NoCall
  /\ UNCHANGED <<alive, elements, has_nodes, order, tags_set, ret_tree>>

\* coarse->createNodes(_order), coarse being the tree coarsen() returned
CoarseCreateNodes(_order) ==
  /\ alive
  /\ ret_tree.valid
  /\ UNCHANGED rest_vars
  /\ \E ub \in IF ShiftUndefined(ret_tree.elements, ClampOrder(_order))
                THEN ShiftUB ELSE {0} :
       ret_tree' = [ret_tree EXCEPT
                      !.order = ClampOrder(_order),
                      !.has_nodes = TRUE,
                      !.nodes = NodeArray(ret_tree.elements,
                                          ClampOrder(_order), ub)]
  /\ ret_find' = NoFind
  /\ last' = Call("coarse.createNodes", ret_tree.elements, <<>>, 0, 0,
                  _order, NoOct)
  /\ prev' = NoCall
  /\ UNCHANGED <<alive, elements, has_nodes, nodes, order, tags_set>>

\* the numbering of the coarse tree's nodes
CoarseNumberNodes ==
  /\ alive
  /\ ret_tree.valid
  /\ ret_tree.has_nodes
  /\ UNCHANGED rest_vars
  /\ ret_tree' = [ret_tree EXCEPT
                    !.nodes = NumberedNodes(@, ret_tree.elements,
                                            ret_tree.order)]
  /\ ret_find' = NoFind
  /\ last' = Call("coarse.numberNodes", ret_tree.elements, <<>>, 0, 0, 0,
                  NoOct)
  /\ prev' = NoCall
  /\ UNCHANGED <<alive, elements, has_nodes, nodes, order, tags_set>>

(***************************************************************************)
(* TMROctree::createInterpolation(coarse, ...), the reference              *)
(* implementation                                                          *)
(***************************************************************************)
\* the sum of the weights the entries from the k-th on hold for index
RECURSIVE WeightOf(_, _, _)
WeightOf(entries, k, index) ==
  IF k > Len(entries) THEN 0
  ELSE (IF entries[k][1] = index THEN entries[k][2] ELSE 0)
       + WeightOf(entries, k + 1, index)

\* TMRIndexWeight::uniqueSort: the entries by index, entries of one index
\* made one entry with the sum of their weights; n bounds the indices
uniqueSort(entries, n) ==
  LET indices == {entries[k][1] : k \in 1..Len(entries)}
  IN SortPairs({<<index, <<index, WeightOf(entries, 1, index)>>>> :
                  index \in indices}, -n - 1, n)

\* what the dereference of t = NULL does: the process is stopped, or the
\* read returns
NullUB == {"trap", "read"}

\* the weights[] entries for the coarse node at (x, y, z) with the weight
\* eighths/8: the node itself, or its parents when it is dependent
CoarseTerm(cnodes, carray, cord, x, y, z, eighths) ==
  LET t == NodeAt(cnodes, x, y, z)
      \* t->tag read through t = NULL, as far as the read returns
      NullTag == 0
  IN IF t = 0 THEN <<<<NullTag, eighths * DepOne>>>>
     ELSE IF cnodes[t].tag >= 0
          THEN <<<<cnodes[t].tag, eighths * DepOne>>>>
          ELSE LET row == DepTableRow(cnodes, carray, cord,
                                      -cnodes[t].tag - 1)
               IN [jp \in 1..Len(row) |->
                     <<row[jp][1], eighths * row[jp][2]>>]

\* the coarse positions the branch for the child id of n reads: from the
\* 0-sibling n0 of n, 2h further along the axes set in id
Stencil(n) ==
  LET id == childId(n)
      h == EdgeLen(n.level)
      n0 == getSibling(n, 0)
      StencilAt(a, b, c) ==
        <<n0.x + 2 * h * a * (id % 2),
          n0.y + 2 * h * b * ((id \div 2) % 2),
          n0.z + 2 * h * c * ((id \div 4) % 2)>>
      \* n0 + 2h*(ii*ie + jj*je), ie and je being the two axes set in id
      FaceAt(ii, jj) == StencilAt(ii, IF id % 2 = 1 THEN jj ELSE ii, jj)
  IN IF id \in {1, 2, 4}
     THEN <<StencilAt(0, 0, 0), StencilAt(1, 1, 1)>>
     ELSE IF id \in {3, 5, 6}
     THEN [i \in 1..4 |-> FaceAt((i - 1) % 2, (i - 1) \div 2)]
     ELSE IF id = 7
     THEN [i \in 1..8 |-> StencilAt((i - 1) % 2, ((i - 1) \div 2) % 2,
                                    (i - 1) \div 4)]
     ELSE <<>>

\* the weight of each stencil node in eighths: 0.5, 0.25 or 0.125
StencilEighths(n) ==
  LET id == childId(n)
  IN IF id \in {1, 2, 4} THEN 4 ELSE IF id \in {3, 5, 6} THEN 2 ELSE 1

\* weights[0..nweights) for the fine node n before uniqueSort
RowEntries(n, cnodes, carray, cord) ==
  LET terms == [i \in 1..Len(Stencil(n)) |->
                  CoarseTerm(cnodes, carray, cord, Stencil(n)[i][1],
                             Stencil(n)[i][2], Stencil(n)[i][3],
                             StencilEighths(n))]
      RECURSIVE Flatten(_)
      Flatten(k) ==
        IF k > Len(terms) THEN <<>> ELSE terms[k] \o Flatten(k + 1)
  IN IF NodeAt(cnodes, n.x, n.y, n.z) # 0
     THEN CoarseTerm(cnodes, carray, cord, n.x, n.y, n.z, 8)
     ELSE Flatten(1)

\* some contains() of the stencil returns NULL for the fine node n
NullStencil(n, cnodes) ==
  /\ n.tag >= 0
  /\ NodeAt(cnodes, n.x, n.y, n.z) = 0
  /\ \E i \in 1..Len(Stencil(n)) :
       NodeAt(cnodes, Stencil(n)[i][1], Stencil(n)[i][2],
              Stencil(n)[i][3]) = 0

\* the rows between interp_ptr[k] and interp_ptr[k+1], one for each fine
\* node with tag >= 0, with the fine node they are for
InterpRows(fine, cnodes, carray, cord) ==
  LET IsIndependent(i) == fine[i].tag >= 0
      independent == SelectSeq([i \in 1..Len(fine) |-> i], IsIndependent)
  IN [k \in 1..Len(independent) |->
        [node |-> independent[k],
         row |-> uniqueSort(RowEntries(fine[independent[k]], cnodes, carray,
                                       cord), Len(cnodes))]]

CreateInterpolation ==
  /\ alive
  /\ ret_tree.valid
  /\ IF ~has_nodes \/ ~ret_tree.has_nodes
     THEN interp' = [result |-> "NULL", rows |-> <<>>]
     ELSE \E ub \in IF \E i \in 1..Len(nodes) :
                          NullStencil(nodes[i], ret_tree.nodes)
                    THEN NullUB ELSE {"read"} :
            IF ub = "trap"
            THEN interp' = [result |-> "crash", rows |-> <<>>]
            ELSE interp' = [result |-> "rows",
                            rows |-> InterpRows(nodes, ret_tree.nodes,
                                                ret_tree.elements,
                                                ret_tree.order)]
  /\ ret_find' = NoFind
  /\ last' = Call("createInterpolation", elements, <<>>, 0, 0, 0, NoOct)
  /\ prev' = NoCall
  /\ UNCHANGED <<alive, elements, has_nodes, nodes, order, tags_set, ret_tree,
                 main, forest, search>>

(***************************************************************************)
(* TMROctForest as main() of examples/parallel/block_parallel.c uses it:   *)
(* one process, one block, so a forest is one octree and the record of the *)
(* calls made on it                                                        *)
(***************************************************************************)
MAX_NUM_MESH == 5

\* a call of op on the forest f
Called(f, op) == [f EXCEPT !.log = Append(@, op)]

\* the hash once the worklist is empty: every entry of level l > 0 brought
\* its sibling family and, for each neighbour, the neighbour's parent; an
\* entry added is an entry enqueued, so levels are closed from the deepest up
RECURSIVE BalanceHash(_, _)
BalanceHash(hash, l) ==
  IF l <= 0 THEN hash
  ELSE LET \* the 26 face, edge and corner neighbours of o at o's level
           Neighbors(o) ==
             {q \in {Oct(o.x + dx * EdgeLen(o.level),
                         o.y + dy * EdgeLen(o.level),
                         o.z + dz * EdgeLen(o.level), o.level) :
                      dx, dy, dz \in -1..1} : q # o /\ InDomain(q)}
           family == {getSibling(e, id) :
                        e \in {q \in hash : q.level = l}, id \in 0..7}
           coarser == {parent(q) : q \in UNION {Neighbors(e) : e \in family}}
       IN BalanceHash(hash \cup family \cup coarser, l - 1)

\* TMROctree::balance: the new element array, the covering of the hash: its
\* entries that contain no other entry
Balance(array) ==
  LET hash == BalanceHash(Range(array), TMR_MAX_LEVEL)
  IN hashToArray({e \in hash :
                    \A d \in {q \in hash : q.level > e.level} :
                      ~contains(e, d)})

\* TMROctForest::balance(balance_corner)
ForestBalance(f, balance_corner) ==
  [Called(f, "balance") EXCEPT !.elements = Balance(f.elements),
                               !.has_nodes = FALSE]

\* TMROctForest::createNodes(order): createNodes(order) on the tree
ForestCreateNodes(f, _order) ==
  [Called(f, "createNodes") EXCEPT !.order = ClampOrder(_order),
                                   !.has_nodes = TRUE]

\* TMROctForest::repartition(): cached nodes are invalidated
ForestRepartition(f) ==
  [Called(f, "repartition") EXCEPT !.has_nodes = FALSE]

\* TMROctForest::coarsen(): the forest of the coarsened tree
ForestCoarsen(f) ==
  [state |-> "live", elements |-> CoarsenTree(f.elements).elements,
   has_nodes |-> FALSE, order |-> CoarsenTree(f.elements).order,
   log |-> <<"coarsened">>]

\* delete forest[level]
ForestDelete(f) == [Called(f, "delete") EXCEPT !.state = "deleted"]

(***************************************************************************)
(* main() of examples/parallel/block_parallel.c                            *)
(***************************************************************************)
\* argv[k]: "partition", "box", "connector", "order=<n>" or something else
Arg(kind, n) == [kind |-> kind, n |-> n]

\* sscanf(argv[k], "order=%d", &order) == 1 and the two tests after it
ParseOrder_raw(_order, arg) ==
  IF arg.kind = "order" THEN arg.n ELSE _order

ParseOrder(_order, arg) ==
  IF arg.kind = "order"
  THEN (LET o2 == IF arg.n < 2 THEN 2 ELSE arg.n
        IN IF o2 > 3 THEN 3 ELSE o2)
  ELSE _order

\* int partition = 0; int order = 2; Xpts = NULL
MainStart(args) ==
  /\ main.pc = "start"
  /\ UNCHANGED beside_main
  /\ main' = [pc |-> "parse", argv |-> args, k |-> 0, order |-> 2,
              partition |-> 0, Xpts |-> "NULL", level |-> 0]
  /\ UNCHANGED forest

\* one turn of for ( int k = 0; k < argc; k++ )
MainParse ==
  /\ main.pc = "parse"
  /\ UNCHANGED beside_main
  /\ IF main.k < Len(main.argv)
     THEN LET arg == main.argv[main.k + 1]
          IN main' = [main EXCEPT
                        !.partition = IF arg.kind = "partition" THEN 1 ELSE @,
                        !.Xpts = IF arg.kind \in {"box", "connector"}
                                 THEN arg.kind ELSE @,
                        !.order = ParseOrder(@, arg),
                        !.k = @ + 1]
     ELSE main' = [main EXCEPT !.pc = "new"]
  /\ UNCHANGED forest

\* forest[0] = new TMROctForest(comm)
MainNew ==
  /\ main.pc = "new"
  /\ UNCHANGED beside_main
  /\ forest' = [forest EXCEPT ![0] =
                 [state |-> "live", elements |-> <<>>, has_nodes |-> FALSE,
                  order |-> 2, log |-> <<"new">>]]
  /\ main' = [main EXCEPT !.pc = "setConnectivity"]

\* forest[0]->setConnectivity(...), on either branch
MainSetConnectivity ==
  /\ main.pc = "setConnectivity"
  /\ UNCHANGED beside_main
  /\ forest' = [forest EXCEPT ![0] = Called(@, "setConnectivity")]
  /\ main' = [main EXCEPT !.pc = "createTrees"]

\* createRandomTrees(50, 0, 5) and createTrees(refine) with refine[k] in
\* min_refine..max_refine, the 50 and the levels scaled as TMR_MAX_LEVEL is
max_refine == TMR_MAX_LEVEL
min_refine == 1

MainCreateTrees ==
  /\ main.pc = "createTrees"
  /\ UNCHANGED beside_main
  /\ IF main.Xpts # "NULL"
     THEN \E array \in [1..MaxRandForest ->
                          RandOctantsUB(0, Min(5, TMR_MAX_LEVEL), 0)] :
            forest' = [forest EXCEPT ![0] =
                         [Called(@, "createRandomTrees")
                            EXCEPT !.elements = TreeFromArray(array).elements]]
     ELSE \E refine \in min_refine..max_refine :
            forest' = [forest EXCEPT ![0] =
                         [Called(@, "createTrees")
                            EXCEPT !.elements =
                                     sort(UniformArray(UniformLevel(refine)))]]
  /\ main' = [main EXCEPT !.pc = "getConnectivity"]

\* if (mpi_rank == 0){ forest[0]->getConnectivity(...); ... }
MainGetConnectivity ==
  /\ main.pc = "getConnectivity"
  /\ UNCHANGED beside_main
  /\ forest' = [forest EXCEPT ![0] = Called(@, "getConnectivity")]
  /\ main' = [main EXCEPT !.pc = "repartition"]

\* forest[0]->repartition(); then the loop starts with level = 0
MainRepartition ==
  /\ main.pc = "repartition"
  /\ UNCHANGED beside_main
  /\ forest' = [forest EXCEPT ![0] = ForestRepartition(@)]
  /\ main' = [main EXCEPT !.pc = "balance", !.level = 0]

\* the loop body without its balance() call
MainBalance_skip ==
  /\ main.pc = "balance"
  /\ UNCHANGED beside_main
  /\ main' = [main EXCEPT !.pc = "createNodes"]
  /\ UNCHANGED forest

\* forest[level]->balance((level == 0))
MainBalance ==
  /\ main.pc = "balance"
  /\ UNCHANGED beside_main
  /\ forest' = [forest EXCEPT ![main.level] =
                  ForestBalance(@, main.level = 0)]
  /\ main' = [main EXCEPT !.pc = "createNodes"]

\* forest[level]->createNodes(order)
MainCreateNodes ==
  /\ main.pc = "createNodes"
  /\ UNCHANGED beside_main
  /\ forest' = [forest EXCEPT ![main.level] =
                  ForestCreateNodes(@, main.order)]
  /\ main' = [main EXCEPT !.pc = "createMeshConn"]

\* main() run with the argument arg, seen from a tree of its forest: the
\* order it parsed is the _order of the createNodes call on the tree (kept
\* in the record of the call where a refine call keeps its limits)
MainOrder(arg) ==
  /\ alive
  /\ UNCHANGED rest_vars
  /\ order' = ClampOrder(ParseOrder(2, arg))
  /\ has_nodes' = TRUE
  /\ \E ub \in IF ShiftUndefined(elements, ClampOrder(ParseOrder(2, arg)))
                THEN ShiftUB ELSE {0} :
       nodes' = NodeArray(elements, ClampOrder(ParseOrder(2, arg)), ub)
  /\ ret_tree' = NoTree
  /\ ret_find' = NoFind
  /\ last' = Call("main", elements, <<>>, ParseOrder(2, arg),
                  ParseOrder(2, arg), arg.n, NoOct)
  /\ prev' = NoCall
  /\ UNCHANGED <<alive, elements, tags_set>>

\* forest[level]->createMeshConn(&conn, &num_elements)
MainCreateMeshConn ==
  /\ main.pc = "createMeshConn"
  /\ UNCHANGED beside_main
  /\ forest' = [forest EXCEPT ![main.level] = Called(@, "createMeshConn")]
  /\ main' = [main EXCEPT !.pc = "getOwnedNodeRange"]

\* forest[level]->getOwnedNodeRange(&range)
MainGetOwnedNodeRange ==
  /\ main.pc = "getOwnedNodeRange"
  /\ UNCHANGED beside_main
  /\ forest' = [forest EXCEPT ![main.level] = Called(@, "getOwnedNodeRange")]
  /\ main' = [main EXCEPT !.pc = "getDepNodeConn"]

\* forest[level]->getDepNodeConn(...); the TACS objects are built; then
\* if (level > 0) the interpolation
MainGetDepNodeConn ==
  /\ main.pc = "getDepNodeConn"
  /\ UNCHANGED beside_main
  /\ forest' = [forest EXCEPT ![main.level] = Called(@, "getDepNodeConn")]
  /\ main' = [main EXCEPT !.pc = IF main.level > 0
                                 THEN "createInterpolation"
                                 ELSE "getOctrees"]

\* forest[level-1]->createInterpolation(forest[level], ...)
MainCreateInterpolation ==
  /\ main.pc = "createInterpolation"
  /\ UNCHANGED beside_main
  /\ forest' = [forest EXCEPT
                  ![main.level - 1] = Called(@, "createInterpolation"),
                  ![main.level] = Called(@, "interpolatedFrom")]
  /\ main' = [main EXCEPT !.pc = "getOctrees"]

\* the loop body with level+1 <= MAX_NUM_MESH in its last test
MainGetOctrees_le ==
  /\ main.pc = "getOctrees"
  /\ UNCHANGED beside_main
  /\ forest' = [forest EXCEPT ![main.level] = Called(@, "getOctrees")]
  /\ main' = [main EXCEPT !.pc = IF main.level + 1 <= MAX_NUM_MESH
                                 THEN "coarsen" ELSE "next"]

\* forest[level]->getOctrees, getOwnedOctrees, getPoints, getNodes; then
\* if (level+1 < MAX_NUM_MESH)
MainGetOctrees ==
  /\ main.pc = "getOctrees"
  /\ UNCHANGED beside_main
  /\ forest' = [forest EXCEPT ![main.level] = Called(@, "getOctrees")]
  /\ main' = [main EXCEPT !.pc = IF main.level + 1 < MAX_NUM_MESH
                                 THEN "coarsen" ELSE "next"]

\* forest[level+1] = forest[level]->coarsen()
MainCoarsen ==
  /\ main.pc = "coarsen"
  /\ UNCHANGED beside_main
  /\ forest' = [f \in DOMAIN forest \cup {main.level + 1} |->
                  IF f = main.level + 1 THEN ForestCoarsen(forest[main.level])
                  ELSE IF f = main.level THEN Called(forest[f], "coarsen")
                  ELSE forest[f]]
  /\ main' = [main EXCEPT !.pc = "next"]

\* level++ and the test level < MAX_NUM_MESH
MainNextLevel ==
  /\ main.pc = "next"
  /\ UNCHANGED beside_main
  /\ main' = [main EXCEPT !.level = @ + 1,
                          !.pc = IF main.level + 1 < MAX_NUM_MESH
                                 THEN "balance" ELSE "print"]
  /\ UNCHANGED forest

\* print_level = MAX_NUM_MESH-1: forest[print_level]->getOctrees, ...
MainPrint ==
  /\ main.pc = "print"
  /\ UNCHANGED beside_main
  /\ forest' = [forest EXCEPT ![MAX_NUM_MESH - 1] = Called(@, "getOctrees")]
  /\ main' = [main EXCEPT !.pc = "delete", !.level = 0]

\* one turn of for ( level < MAX_NUM_MESH ) delete forest[level]
MainDelete ==
  /\ main.pc = "delete"
  /\ UNCHANGED beside_main
  /\ IF main.level < MAX_NUM_MESH
     THEN /\ forest' = [forest EXCEPT ![main.level] = ForestDelete(@)]
          /\ main' = [main EXCEPT !.level = @ + 1]
     ELSE /\ main' = [main EXCEPT !.pc = "done"]
          /\ UNCHANGED forest

(***************************************************************************)
(* The arguments the calls are tried with                                  *)
(***************************************************************************)
Levels == 0..TMR_MAX_LEVEL

\* every octant of the domain
Octants ==
  UNION {{Oct(EdgeLen(l) * a, EdgeLen(l) * b, EdgeLen(l) * c, l) :
            a, b, c \in 0..(Pow2(l) - 1)} : l \in Levels}

Root == Oct(0, 0, 0, 0)

\* the eight children of an octant
Children(o) ==
  {getSibling([o EXCEPT !.level = o.level + 1], j) : j \in 0..7}

\* the trees one leaf split away from the tree T (a set of leaves)
SplitOnce(T) ==
  {(T \ {e}) \cup Children(e) : e \in {e \in T : e.level < TMR_MAX_LEVEL}}

\* the leaf sets reached from the root by at most k leaf splits
RECURSIVE TreesBySplits(_)
TreesBySplits(k) ==
  IF k = 0 THEN {{Root}}
  ELSE LET P == TreesBySplits(k - 1)
       IN P \cup UNION {SplitOnce(T) : T \in P}

ValidLeafSets == TreesBySplits(MaxSplits)

Reverse(s) == [i \in 1..Len(s) |-> s[Len(s) + 1 - i]]

\* a family with child i missing and child j replaced by two of its own
\* children
PartialFamily(p, i, j) ==
  LET ci == getSibling([p EXCEPT !.level = p.level + 1], i)
      cj == getSibling([p EXCEPT !.level = p.level + 1], j)
      gj == [cj EXCEPT !.level = cj.level + 1]
  IN (Children(p) \ {ci, cj}) \cup {getSibling(gj, 0), getSibling(gj, 1)}

PartialFamilies ==
  {PartialFamily(p, i, j) :
     p \in {o \in Octants : o.level + 2 <= TMR_MAX_LEVEL},
     i \in 0..7, j \in 0..7} 

\* the arrays handed to the from-array constructor, out of order
ValidArrays == {Reverse(SortSet(T)) : T \in ValidLeafSets}
SortedValidArrays == {SortSet(T) : T \in ValidLeafSets}
PartialArrays == {Reverse(SortSet(T)) : T \in PartialFamilies}

\* the arguments of the uniform constructor whose shifts are defined
UniformArgs == (-1..TMR_MAX_LEVEL) \cup {TMR_MAX_LEVEL + 2}

\* the entries of a refinement array
Marks == {-1, 0, 1}

\* the refinement arrays that mark every element alike
SameMarks(n) == {[i \in 1..n |-> b] : b \in Marks}

\* the refinement arrays in which at most one element is marked unlike
\* the others
NearMarks(n) ==
  {[i \in 1..n |-> IF i = d THEN m ELSE b] :
     b \in Marks, m \in Marks, d \in 1..n}
  \cup SameMarks(n)

\* level limits, in and out of range
LevelArgs == -1..(TMR_MAX_LEVEL + 1)

OrderArgs == 1..4

(***************************************************************************)
(* Specifications                                                          *)
(***************************************************************************)
Init ==
  /\ alive = FALSE
  /\ elements = <<>>
  /\ has_nodes = FALSE
  /\ nodes = <<>>
  /\ order = 0
  /\ tags_set = FALSE
  /\ ret_tree = NoTree
  /\ ret_find = NoFind
  /\ last = NoCall
  /\ prev = NoCall
  /\ interp = NoInterp
  /\ main = [pc |-> "start", argv |-> <<>>, k |-> 0, order |-> 0,
             partition |-> 0, Xpts |-> "NULL", level |-> 0]
  /\ forest = [f \in 0..(MAX_NUM_MESH - 1) |->
                 [state |-> "none", elements |-> <<>>, has_nodes |-> FALSE,
                  order |-> 0, log |-> <<>>]]
  /\ search = [pc |-> "idle", oct |-> NoOct, low |-> 0, high |-> 0,
               mid |-> 0, outside |-> [trap |-> FALSE, oct |-> NoOct],
               ret |-> NoFind]

\* the constructor calls with at most maxrand random octants and the
\* from-array constructor fed from arrays
ConstructWith(maxrand, arrays, taggings) ==
  \/ \E refine_level \in UniformArgs : NewUniform(refine_level)
  \/ \E nrand \in 0..maxrand, min_level \in Levels, max_level \in Levels :
       min_level <= max_level /\ NewRandom(nrand, min_level, max_level)
  \/ \E arr \in arrays, tagged \in taggings : NewFromArray(arr, tagged)

Construct == ~alive /\ ConstructWith(MaxRand, ValidArrays, {FALSE})

\* the life of one tree: construction, refine, coarsen, createNodes
Next ==
  \/ Construct
  \/ /\ alive
     /\ \E refinement \in SameMarks(Len(elements)) :
          Refine(refinement, 0, TMR_MAX_LEVEL)
  \/ Coarsen
  \/ Descend
  \/ /\ alive
     /\ \E _order \in OrderArgs : CreateNodes(_order)
  \/ Delete

Spec == Init /\ [][Next]_vars

\* single refine calls on freshly constructed trees, with every kind of
\* refinement array and level limit
NextRefine ==
  \/ ~alive /\ ConstructWith(MaxRandRefine, ValidArrays, {FALSE})
  \/ /\ alive
     /\ last.op # "refine"
     /\ \E refinement \in NearMarks(Len(elements)) :
          \E min_level \in LevelArgs, max_level \in LevelArgs :
            Refine(refinement, min_level, max_level)
  \/ Delete

SpecRefine == Init /\ [][NextRefine]_vars

\* coarsen calls on freshly constructed trees, complete and incomplete
NextCoarsen ==
  \/ ~alive /\ ConstructWith(MaxRand, ValidArrays \cup PartialArrays, {FALSE})
  \/ Coarsen
  \/ Delete

SpecCoarsen == Init /\ [][NextCoarsen]_vars

\* one search on each freshly constructed tree (a search changes nothing
\* of the tree, so a second one finds what a first one finds)
Searched == last.op \in {"findEnclosing", "findEnclosingRange"}

NextFind ==
  \/ ~alive /\ ConstructWith(MaxRand, SortedValidArrays, BOOLEAN)
  \/ /\ alive
     /\ ~Searched
     /\ \E oct \in Octants : FindEnclosing(oct)
  \/ /\ alive
     /\ ~Searched
     /\ tags_set
     /\ \E oct \in Octants : FindEnclosingRange(oct)
  \/ Delete

SpecFind == Init /\ [][NextFind]_vars

\* findEnclosing calls followed statement by statement; a call that has
\* begun goes on
NextSearch ==
  \/ ~alive /\ ConstructWith(MaxRand, SortedValidArrays, {FALSE})
  \/ ~Searched /\ \E oct \in Octants : SearchStart(oct)
  \/ SearchStep
  \/ search.pc = "idle" /\ Delete

SpecSearch == Init /\ [][NextSearch]_vars /\ WF_vars(SearchStep)

\* the octant invariants: level in range, coordinates multiples of the
\* octant's own h, the cube inside the domain
OctantInvariant(o) ==
  /\ o.level >= 0 /\ o.level <= TMR_MAX_LEVEL
  /\ \A c \in {o.x, o.y, o.z} :
       c >= 0 /\ c % EdgeLen(o.level) = 0 /\ c + EdgeLen(o.level) <= hmax

WellFormed(arr) == {i \in 1..Len(arr) : ~OctantInvariant(arr[i])} = {}

\* every integer argument class of the uniform constructor
UniformArgsAll == -1..(TMR_MAX_LEVEL + 2)

\* nrand of the random constructor, negative included
RandArgs == -1..MaxRandRefine

\* constructor calls with arguments in and out of range, then refine and
\* coarsen on the trees whose octants are octants of the domain
NextEntry ==
  \/ \E refine_level \in UniformArgsAll : NewUniform(refine_level)
  \/ \E nrand \in RandArgs, min_level \in LevelArgs, max_level \in LevelArgs :
       max_level >= min_level - 1 /\ NewRandom(nrand, min_level, max_level)
  \/ /\ alive
     /\ WellFormed(elements)
     /\ last.op # "refine"
     /\ \E refinement \in SameMarks(Len(elements)) :
          \E max_level \in LevelArgs : Refine(refinement, 0, max_level)
  \/ WellFormed(elements) /\ Coarsen
  \/ Descend
  \/ Delete

SpecEntry == Init /\ [][NextEntry]_vars

\* the order of a tree through its life: the constructors, createNodes
\* called with any _order or reached from main() run with order=<n>, and
\* the calls that are to leave the order alone
OrderArgsAll == -1..5

NextOrder ==
  \/ ~alive /\ ConstructWith(MaxRandRefine, ValidArrays, {FALSE})
  \/ /\ alive
     /\ Len(elements) <= MaxRefineSize
     /\ \E _order \in OrderArgsAll : CreateNodes(_order)
  \/ /\ alive
     /\ Len(elements) <= MaxRefineSize
     /\ \E n \in OrderArgsAll : MainOrder(Arg("order", n))
  \/ /\ alive
     /\ \E refinement \in SameMarks(Len(elements)) :
          Refine(refinement, 0, TMR_MAX_LEVEL)
  \/ Coarsen
  \/ Descend
  \/ FindEnclosing(NoOct)
  \/ Delete

SpecOrder == Init /\ [][NextOrder]_vars

\* a fine tree, its coarsening, the nodes of both and the interpolation
\* between them; the fine trees are the valid trees and the trees that hold
\* one family next to a single octant of the family's level
InterpArrays ==
  LET p == Oct(0, 0, 0, 1)
      LoneNeighbors ==
        {q \in Octants : /\ q.level = p.level + 1
                         /\ q.x = p.x + EdgeLen(p.level)
                         /\ q.y \in p.y..(p.y + EdgeLen(p.level) - 1)
                         /\ q.z \in p.z..(p.z + EdgeLen(p.level) - 1)}
  IN SortedValidArrays
     \cup {SortSet(Children(p) \cup {q}) : q \in LoneNeighbors}

NextInterp ==
  \/ \E arr \in InterpArrays : NewFromArray(arr, FALSE)
  \/ \E _order \in 2..3 :
       /\ alive
       /\ ~has_nodes
       /\ ~ShiftUndefined(elements, _order)
       /\ CreateMesh(_order)
  \/ last.op # "numberNodes" /\ NumberNodes
  \/ last.op # "coarsen" /\ Coarsen
  \/ \E _order \in 2..3 :
       /\ ret_tree.valid
       /\ ~ret_tree.has_nodes
       /\ ~ShiftUndefined(ret_tree.elements, _order)
       /\ CoarseCreateNodes(_order)
  \/ last.op # "coarse.numberNodes" /\ CoarseNumberNodes
  \/ last.op # "createInterpolation" /\ CreateInterpolation
  \/ Delete

SpecInterp == Init /\ [][NextInterp]_vars

\* main() of block_parallel.c from its first statement to its last, run with
\* up to MaxArgs arguments
ArgLists ==
  LET Args == {Arg("partition", 0), Arg("box", 0), Arg("connector", 0)}
              \cup {Arg("order", n) : n \in OrderArgs}
  IN {<<Arg("other", 0)>> \o args :
        args \in UNION {[1..n -> Args] : n \in 0..MaxArgs}}

NextMain ==
  \/ \E args \in ArgLists : MainStart(args)
  \/ MainParse
  \/ MainNew
  \/ MainSetConnectivity
  \/ MainCreateTrees
  \/ MainGetConnectivity
  \/ MainRepartition
  \/ MainBalance
  \/ MainCreateNodes
  \/ MainCreateMeshConn
  \/ MainGetOwnedNodeRange
  \/ MainGetDepNodeConn
  \/ MainCreateInterpolation
  \/ MainGetOctrees
  \/ MainCoarsen
  \/ MainNextLevel
  \/ MainPrint
  \/ MainDelete

SpecMain == Init /\ [][NextMain]_vars

(***************************************************************************)
(* Properties                                                              *)
(***************************************************************************)
\* the cubes of a and b have a point in common
Overlap(a, b) ==
  LET ha == EdgeLen(a.level)
      hb == EdgeLen(b.level)
  IN /\ a.x < b.x + hb /\ b.x < a.x + ha
     /\ a.y < b.y + hb /\ b.y < a.y + ha
     /\ a.z < b.z + hb /\ b.z < a.z + ha

FinestCells == {o \in Octants : o.level = TMR_MAX_LEVEL}

\* the cubes of arr cover the domain
Covers(arr) ==
  \A c \in FinestCells : \E i \in 1..Len(arr) : contains(arr[i], c)

\* no cube of arr lies inside another cube of arr
NoContainment(arr) ==
  \A i, j \in 1..Len(arr) : i # j => ~contains(arr[i], arr[j])

\* a valid linear octree: the cubes partition the domain
IsLinearOctree(arr) == Covers(arr) /\ NoContainment(arr)

IsMortonSorted(arr) ==
  \A i \in 1..(Len(arr) - 1) : compare(arr[i], arr[i + 1]) <= 0

NoEqualEntries(arr) ==
  \A i, j \in 1..Len(arr) :
    i # j => <<arr[i].x, arr[i].y, arr[i].z, arr[i].level>>
             # <<arr[j].x, arr[j].y, arr[j].z, arr[j].level>>

AllPositive(marks) == \A i \in 1..Len(marks) : marks[i] > 0

\* C1: after refine on a tree whose cubes partition the domain, the new
\* element array is again a valid linear octree, whatever the refinement
\* array.
C1_RefineKeepsLinearOctree ==
  (last.op = "refine" /\ IsLinearOctree(last.pre))
    => IsLinearOctree(elements)

\* coarsen() was called right after refine(all > 0, default limits) on the
\* valid linear octree prev.pre
RoundTrip ==
  /\ last.op = "coarsen"
  /\ prev.op = "refine"
  /\ AllPositive(prev.marks)
  /\ prev.min_level = 0
  /\ prev.max_level = TMR_MAX_LEVEL
  /\ IsMortonSorted(prev.pre)
  /\ IsLinearOctree(prev.pre)

\* C2 as stated: for every valid linear octree T, elements at the deepest
\* level included, coarsen after refine-all-by-one gives T back.
C2_RoundTripAnyLevel == RoundTrip => ret_tree.elements = prev.pre

BelowDeepest(arr) == \A i \in 1..Len(arr) : arr[i].level < TMR_MAX_LEVEL

\* C2 amended: for every valid linear octree T whose elements are all
\* above the deepest level, coarsen after refine-all-by-one gives T back.
C2_RoundTrip ==
  (RoundTrip /\ BelowDeepest(prev.pre)) => ret_tree.elements = prev.pre

C2_Witness ==
  /\ RoundTrip
  /\ BelowDeepest(prev.pre)
  /\ Len(prev.pre) >= 8
  /\ Len(last.pre) >= 64

\* refine was called with every mark > 0 on a tree whose elements are all
\* at level max_level
AtClamp ==
  /\ last.op = "refine"
  /\ AllPositive(last.marks)
  /\ \A i \in 1..Len(last.pre) : last.pre[i].level = last.max_level

\* C3 as stated: for every constructed tree whose elements are all at
\* level max_level, refine with every mark > 0 leaves the element array as
\* it was.
C3_ClampIdempotentAnyTree == AtClamp => elements = last.pre

\* all eight siblings of every entry are entries
FamiliesComplete(arr) ==
  \A i \in 1..Len(arr), j \in 0..7 : getSibling(arr[i], j) \in Range(arr)

\* C3 amended: for every tree whose elements are all at level max_level
\* and in which every element has its eight siblings among the elements,
\* refine with every mark > 0 leaves the element array as it was.
C3_ClampIdempotent ==
  (AtClamp /\ FamiliesComplete(last.pre)) => elements = last.pre

C3_Witness ==
  /\ AtClamp
  /\ FamiliesComplete(last.pre)
  /\ Len(last.pre) >= 8
  /\ last.max_level < TMR_MAX_LEVEL

\* element i of the refined array and its seven siblings are all elements
\* marked < 0
FullFamilyMarked(i) ==
  \A j \in 0..7 :
    \E k \in 1..Len(last.pre) :
      last.pre[k] = getSibling(last.pre[i], j) /\ last.marks[k] < 0

\* C4: in refine the parent of an element marked < 0 is in the new array
\* only if all eight children of that parent are elements marked < 0;
\* otherwise the marked element stays and its parent is absent.
C4_CoarsenOnlyFullFamily ==
  last.op = "refine" =>
    \A i \in 1..Len(last.pre) :
      (last.marks[i] < 0 /\ last.pre[i].level > 0) =>
        /\ parent(last.pre[i]) \in Range(elements) => FullFamilyMarked(i)
        /\ ~FullFamilyMarked(i) =>
             /\ last.pre[i] \in Range(elements)
             /\ parent(last.pre[i]) \notin Range(elements)

\* entries i..i+7 (from 0) are the children 0, 1, ..., 7 of one parent
FamilyAt(array, i) ==
  /\ i + 7 < Len(array)
  /\ array[i + 1].level > 0
  /\ \A k \in 0..7 :
       /\ array[i + k + 1].level = array[i + 1].level
       /\ childId(array[i + k + 1]) = k
       /\ parent(array[i + k + 1]) = parent(array[i + 1])

\* the one-level scan that checks all eight entries
RECURSIVE FamilyScan(_, _, _)
FamilyScan(array, i, queue) ==
  IF i >= Len(array) THEN queue
  ELSE IF FamilyAt(array, i)
       THEN FamilyScan(array, i + 8, Append(queue, parent(array[i + 1])))
       ELSE FamilyScan(array, i + 1, Append(queue, array[i + 1]))

\* C5: coarsen() emits the parent in place of entries i..i+7 exactly when
\* those eight entries are the children 0..7 of one parent, every other
\* entry unchanged, in a single pass.
C5_CoarsenChecksAllEight ==
  last.op = "coarsen" =>
    ret_tree.elements = SortSet(Range(FamilyScan(last.pre, 0, <<>>)))

\* the indices (from 1) of the elements whose cube contains the octant
Enclosing(oct) == {i \in 1..Len(elements) : contains(elements[i], oct)}

\* C6: on a Morton-sorted array of pairwise non-overlapping cubes,
\* findEnclosing(o) returns the element that contains o when there is one
\* and NULL when there is none.
C6_FindEnclosing ==
  (last.op = "findEnclosing" /\ IsMortonSorted(elements)
     /\ NoContainment(elements))
    => IF Enclosing(last.oct) # {}
       THEN ret_find.kind = "elem" /\ ret_find.idx + 1 \in Enclosing(last.oct)
       ELSE ret_find.kind = "null"

\* findEnclosingRange ran on a valid linear octree whose tags are the
\* indices
RangeCase ==
  /\ last.op = "findEnclosingRange"
  /\ tags_set
  /\ IsMortonSorted(elements)
  /\ IsLinearOctree(elements)

C8_SortedUnique ==
  /\ alive => (IsMortonSorted(elements) /\ NoEqualEntries(elements))
  /\ ret_tree.valid =>
       (IsMortonSorted(ret_tree.elements) /\ NoEqualEntries(ret_tree.elements))

C8_Witness ==
  /\ alive
  /\ last.op = "array"
  /\ Len(elements) >= 8
  /\ last.pre # elements

\* C9: no node array after construction and after refine, none on the
\* tree coarsen() returns, and a node array that is present is the one
\* createNodes builds from the current element array.
C9_NodesNeverStale ==
  /\ (alive /\ last.op \in {"uniform", "random", "array", "refine"})
       => ~has_nodes
  /\ ret_tree.valid => ~ret_tree.has_nodes
  /\ (alive /\ has_nodes)
       => \E ub \in ShiftUB : nodes = NodeArray(elements, order, ub)

C9_Witness ==
  /\ alive
  /\ last.op = "refine"
  /\ last.n = 1
  /\ ~has_nodes
  /\ elements # last.pre

\* the positions the claim gives an element: origin + (i, j, k) * s
NodePositions(e, ord) ==
  LET s == IF ord = 2 THEN EdgeLen(e.level) ELSE EdgeLen(e.level) \div 2
  IN {<<e.x + i * s, e.y + j * s, e.z + k * s>> : i, j, k \in 0..(ord - 1)}

\* C10: after createNodes(order) the node positions are the union over the
\* elements, at any level, of order^3 distinct positions origin + (i,j,k)*s,
\* s = h for order 2 and h/2 for order 3; every node has level 0, tag 1.
C10_NodePositions ==
  (alive /\ last.op = "createNodes") =>
    /\ {<<nodes[i].x, nodes[i].y, nodes[i].z>> : i \in 1..Len(nodes)}
         = UNION {NodePositions(elements[i], order) : i \in 1..Len(elements)}
    /\ \A i \in 1..Len(elements) :
         Cardinality(NodePositions(elements[i], order)) = order * order * order
    /\ \A i \in 1..Len(nodes) : nodes[i].level = 0 /\ nodes[i].tag = 1

\* no two entries of arr have the same (x, y, z)
DistinctPositions(arr) ==
  \A i, j \in 1..Len(arr) :
    i # j => <<arr[i].x, arr[i].y, arr[i].z>> # <<arr[j].x, arr[j].y, arr[j].z>>

\* C11: after createNodes on any tree the node array is in sorted order and
\* no two of its entries share (x, y, z).
C11_NodesUnique ==
  (alive /\ has_nodes) => (IsMortonSorted(nodes) /\ DistinctPositions(nodes))

\* adjacent elements emitted positions they share
C11_Witness ==
  /\ alive
  /\ last.op = "createNodes"
  /\ Len(elements) >= 8
  /\ Len(nodes) > 0
  /\ Len(nodes) < order * order * order * Len(elements)

\* C13: whatever integers the uniform and the random constructor are given,
\* every element of the tree satisfies the octant invariants, and so does
\* every element after a later refine or coarsen.
C13_ClampedOnEntry ==
  /\ alive => WellFormed(elements)
  /\ ret_tree.valid => WellFormed(ret_tree.elements)

\* the limits of the last refine call after the adjustments
LastMin == RefineMin(last.min_level, last.max_level)
LastMax == RefineMax(last.max_level)

\* the elements refine was called on that are marked < 0
MarkedDown == {i \in 1..Len(last.pre) : last.marks[i] < 0}

\* C18 as stated: an element marked < 0 gives way to its parent only if the
\* parent's level lies in [min_level, max_level]; when the parent's level is
\* outside the interval, below or above, the element is kept at its level.
C18_ParentWithinLimits ==
  last.op = "refine" =>
    \A i \in MarkedDown :
      LET e == last.pre[i]
          inside == LastMin <= e.level - 1 /\ e.level - 1 <= LastMax
      IN /\ (parent(e) \in Range(elements) /\ e \notin Range(elements))
              => inside
         /\ ~inside => e \in Range(elements)

\* C18 amended: the parent of an element marked < 0 is put in the new array
\* when the parent's level is at least min_level, whatever max_level is;
\* when the parent's level would fall below min_level the element is kept
\* at its own level.
C18_ParentAboveMin ==
  last.op = "refine" =>
    \A i \in MarkedDown :
      LET e == last.pre[i]
      IN /\ e.level - 1 >= LastMin => parent(e) \in Range(elements)
         /\ e.level - 1 < LastMin => e \in Range(elements)

\* a parent above max_level was put in the array in place of its child
C18_Witness ==
  /\ last.op = "refine"
  /\ LastMin <= LastMax
  /\ \E i \in MarkedDown :
       /\ last.pre[i].level - 1 > LastMax
       /\ parent(last.pre[i]) \in Range(elements)
       /\ last.pre[i] \notin Range(elements)

\* every level of arr lies in [mn, mx]
LevelsWithin(arr, mn, mx) ==
  \A i \in 1..Len(arr) : mn <= arr[i].level /\ arr[i].level <= mx

\* C19: when every element's level lies in the normalised
\* [min_level, max_level] before refine, every element's level lies in it
\* after refine, whatever the refinement array; an element marked < 0 at
\* level min_level and an element marked > 0 at level max_level stay in the
\* array at their level.
C19_LevelLimits ==
  (last.op = "refine" /\ LevelsWithin(last.pre, LastMin, LastMax)) =>
    /\ LevelsWithin(elements, LastMin, LastMax)
    /\ \A i \in 1..Len(last.pre) :
         /\ (last.marks[i] < 0 /\ last.pre[i].level = LastMin)
              => last.pre[i] \in Range(elements)
         /\ (last.marks[i] > 0 /\ last.pre[i].level = LastMax)
              => last.pre[i] \in Range(elements)

\* one call held back an element at min_level > 0 and an element at
\* max_level < TMR_MAX_LEVEL
C19_Witness ==
  /\ last.op = "refine"
  /\ LevelsWithin(last.pre, LastMin, LastMax)
  /\ LastMin > 0
  /\ LastMax < TMR_MAX_LEVEL
  /\ \E i, j \in 1..Len(last.pre) :
       /\ last.marks[i] < 0 /\ last.pre[i].level = LastMin
       /\ last.marks[j] > 0 /\ last.pre[j].level = LastMax
  /\ elements = last.pre

\* 8^n
RECURSIVE Pow8(_)
Pow8(n) == IF n <= 0 THEN 1 ELSE 8 * Pow8(n - 1)

\* the uniform constructor returned for a level L = last.n in range
UniformCase ==
  /\ alive
  /\ last.op = "uniform"
  /\ 0 <= last.n /\ last.n <= TMR_MAX_LEVEL

Touch(a, b) ==
  LET ha == EdgeLen(a.level)
      hb == EdgeLen(b.level)
  IN /\ a.x <= b.x + hb /\ b.x <= a.x + ha
     /\ a.y <= b.y + hb /\ b.y <= a.y + ha
     /\ a.z <= b.z + hb /\ b.z <= a.z + ha

\* no two elements that touch differ in level by more than one
Balanced(arr) ==
  \A a \in Range(arr) :
    \A b \in {q \in Range(arr) : q.level > a.level + 1} : ~Touch(a, b)

Calls(log, op) == {i \in 1..Len(log) : log[i] = op}

\* every call of op in the log comes after a call of first
Precedes(log, first, op) ==
  \A j \in Calls(log, op) : \E i \in Calls(log, first) : i < j

\* the calls that need the nodes of forest[level]
NodeCalls == {"createMeshConn", "getOwnedNodeRange", "getDepNodeConn",
              "createInterpolation", "interpolatedFrom"}

\* C17: main() keeps the call protocol on each of its MAX_NUM_MESH forests:
\* balance before createNodes, createNodes before createMeshConn,
\* getOwnedNodeRange, getDepNodeConn and before the forest is either side of
\* createInterpolation, which pairs forest[level-1] with forest[level];
\* forest[level+1] exists only as the coarsen of forest[level], for
\* level+1 < MAX_NUM_MESH, before any call on it; each forest is deleted
\* once, after every other call on it, and all are when main() ends.
C17_CallProtocol ==
  /\ DOMAIN forest = 0..(MAX_NUM_MESH - 1)
  /\ \A f \in DOMAIN forest :
       LET log == forest[f].log
       IN /\ Precedes(log, "balance", "createNodes")
          /\ \A op \in NodeCalls : Precedes(log, "createNodes", op)
          /\ Calls(log, "createInterpolation") # {}
               => /\ (f + 1) \in DOMAIN forest
                  /\ Cardinality(Calls(log, "createInterpolation"))
                       = Cardinality(Calls(forest[f + 1].log,
                                           "interpolatedFrom"))
          /\ Calls(log, "interpolatedFrom") # {} => f > 0
          /\ log # <<>> => log[1] = IF f = 0 THEN "new" ELSE "coarsened"
          /\ (f > 0 /\ log # <<>>)
               => Cardinality(Calls(forest[f - 1].log, "coarsen")) = 1
          /\ Calls(log, "delete") \subseteq {Len(log)}
          /\ forest[f].state = "deleted" <=> Calls(log, "delete") # {}
          /\ forest[f].state = "none" <=> log = <<>>
  /\ main.pc \in {"createMeshConn", "getOwnedNodeRange", "getDepNodeConn",
                  "createInterpolation"}
       => forest[main.level].has_nodes
  /\ main.pc = "createInterpolation" => forest[main.level - 1].has_nodes
  /\ main.pc = "done"
       => \A f \in DOMAIN forest :
            /\ forest[f].state = "deleted"
            /\ \A op \in {"balance", "createNodes", "createMeshConn",
                          "getOwnedNodeRange", "getDepNodeConn"} :
                 Calls(forest[f].log, op) # {}

\* main() has ended: five forests were made, used and deleted
C17_Witness ==
  /\ main.pc = "done"
  /\ \A f \in 0..(MAX_NUM_MESH - 1) :
       /\ forest[f].state = "deleted"
       /\ Calls(forest[f].log, "createNodes") # {}
  /\ Calls(forest[0].log, "createInterpolation") # {}

\* 2 if n < 2, 3 if n > 3, n otherwise
TwoOrThree(n) == IF n < 2 THEN 2 ELSE IF n > 3 THEN 3 ELSE n

\* the order of a tree that exists, after each kind of call
OrderAfterCall ==
  alive =>
    /\ order \in {2, 3}
    /\ last.op \in {"uniform", "random", "array", "descend"} => order = 2
    /\ ret_tree.valid => ret_tree.order = 2
    /\ last.op \in {"createNodes", "main"} => order = TwoOrThree(last.n)
    /\ last.op = "main" => last.min_level = TwoOrThree(last.n)

\* a call that is neither a constructor nor createNodes leaves the order
OrderKept ==
  (alive /\ alive' /\ last'.op \notin {"createNodes", "main", "descend"})
    => order' = order

\* C12: the order of a tree is always 2 or 3: it is 2 after every
\* constructor, createNodes(n) stores 2 for n < 2, 3 for n > 3 and n
\* otherwise, main() run with order=<n> leaves the same order in the tree,
\* and no other call changes the order.
C12_OrderTwoOrThree == [](OrderAfterCall) /\ [][OrderKept]_vars

\* main() was run with order=4 and the tree holds the nodes of order 3
C12_Witness ==
  /\ alive
  /\ last.op = "main"
  /\ last.n = 4
  /\ has_nodes
  /\ order = 3


\* the sum of the weights of a row
RowSum(row) ==
  LET indices == {row[k][1] : k \in 1..Len(row)}
  IN IF indices = {} THEN 0
     ELSE LET RECURSIVE Total(_)
              Total(k) == IF k > Len(row) THEN 0 ELSE row[k][2] + Total(k + 1)
          IN Total(1)

\* the nodes of a tree carry their numbers
Numbered(nds, array, ord) == nds = NumberedNodes(nds, array, ord)

\* every row of the dependent table of the coarse tree sums to 1
CoarseRowsSumToOne ==
  \A d \in 0..(Cardinality(DepNodes(ret_tree.nodes, ret_tree.elements,
                                    ret_tree.order)) - 1) :
    RowSum(DepTableRow(ret_tree.nodes, ret_tree.elements, ret_tree.order, d))
      = DepOne

\* createInterpolation has just been called on a tree with numbered nodes
\* for its coarsening, which has numbered nodes too
InterpCase ==
  /\ alive
  /\ last.op = "createInterpolation"
  /\ has_nodes
  /\ Numbered(nodes, elements, order)
  /\ ret_tree.valid
  /\ ret_tree.elements = CoarsenTree(elements).elements
  /\ ret_tree.has_nodes
  /\ Numbered(ret_tree.nodes, ret_tree.elements, ret_tree.order)
  /\ CoarseRowsSumToOne

\* C15: createInterpolation between a tree and its coarsening, both with
\* numbered nodes and the coarse dependent rows summing to 1, returns one row
\* for every fine node with tag >= 0; no row is empty and the weights of
\* every row sum to exactly 1, coarse dependent parents included.
C15_PartitionOfUnity ==
  InterpCase =>
    /\ interp.result = "rows"
    /\ Len(interp.rows)
         = Cardinality({i \in 1..Len(nodes) : nodes[i].tag >= 0})
    /\ \A k \in 1..Len(interp.rows) :
         /\ interp.rows[k].row # <<>>
         /\ RowSum(interp.rows[k].row) = WeightOne

\* the sum of f over the finite set S of its domain
RECURSIVE SumFn(_, _)
SumFn(f, S) ==
  IF S = {} THEN 0
  ELSE LET p == CHOOSE q \in S : TRUE IN f[p] + SumFn(f, S \ {p})

\* what the coarse node with index t puts under the id index, in DepOne-ths
\* of its own weight: all of it under its own id, or its dependent weights
\* under its parents
Share(t, index) ==
  LET c == ret_tree.nodes[t]
  IN IF c.tag >= 0 THEN (IF c.tag = index THEN DepOne ELSE 0)
     ELSE WeightOf(DepTableRow(ret_tree.nodes, ret_tree.elements,
                               ret_tree.order, -c.tag - 1), 1, index)

\* the corners the claim names for the fine node n: from the 0-sibling of n
\* at the level of n, 0 or 2h along each axis that is set in the child id
ClaimedCorners(n) ==
  LET id == childId(n)
      h == EdgeLen(n.level)
      n0 == getSibling(n, 0)
      ex == id % 2
      ey == (id \div 2) % 2
      ez == (id \div 4) % 2
  IN {<<n0.x + a * ex, n0.y + b * ey, n0.z + c * ez>> :
        a, b, c \in {0, 2 * h}}

\* the row is the one the claim gives the fine node n
ClaimedRow(n, row) ==
  LET here == NodeAt(ret_tree.nodes, n.x, n.y, n.z)
      corners == ClaimedCorners(n)
      at == {NodeAt(ret_tree.nodes, p[1], p[2], p[3]) : p \in corners}
      each == WeightOne \div (Cardinality(corners) * DepOne)
      indices == {row[k][1] : k \in 1..Len(row)}
      ids == {ret_tree.nodes[t].tag : t \in at \ {0}}
  IN IF here # 0
     THEN \A index \in indices \cup {ret_tree.nodes[here].tag} :
            WeightOf(row, 1, index) = 8 * Share(here, index)
     ELSE childId(n) # 0 =>
            /\ Cardinality(corners) = (IF childId(n) \in {1, 2, 4} THEN 2
                                       ELSE IF childId(n) = 7 THEN 8 ELSE 4)
            /\ 0 \notin at
            /\ \A index \in indices \cup {i \in ids : i >= 0} :
                 WeightOf(row, 1, index)
                   = each * SumFn([t \in at |-> Share(t, index)], at)

\* C16: in the rows createInterpolation returns, a fine node with a coarse
\* node at its position gets that node with weight 1; any other fine node
\* gets, by its child id at its own level, the two (ids 1, 2, 4), four (ids
\* 3, 5, 6) or eight (id 7) coarse nodes 0 and 2h from its 0-sibling along
\* the axes set in the id, with weight 0.5, 0.25 or 0.125 each; a coarse
\* node that is dependent stands for its parents.
C16_StencilByChildId ==
  InterpCase =>
    /\ interp.result = "rows"
    /\ \A k \in 1..Len(interp.rows) :
         ClaimedRow(nodes[interp.rows[k].node], interp.rows[k].row)

\* the same for trees whose nodes are the element corners (order 2)
C15_Order2 == (order = 2 /\ ret_tree.order = 2) => C15_PartitionOfUnity
C16_Order2 == (order = 2 /\ ret_tree.order = 2) => C16_StencilByChildId


\* C21: findEnclosing reads the element array only at indices in [0, size):
\* on every array, the empty one and the one-element one included, and for
\* every query, no elems[mid] or elems[low] in or after the loop has an index
\* outside the array.
C21_ReadsInBounds ==
  last.op = "findEnclosing" => findEnclosing(last.pre, last.oct).kind # "oob"


\* coarsen() has just returned a tree made from a valid linear octree
CoarsenCase ==
  /\ last.op = "coarsen"
  /\ ret_tree.valid
  /\ IsMortonSorted(last.pre)
  /\ IsLinearOctree(last.pre)

\* the parents all of whose eight children are entries of arr
MergedFamilies(arr) ==
  {p \in {parent(arr[i]) : i \in {k \in 1..Len(arr) : arr[k].level > 0}} :
     Children(p) \subseteq Range(arr)}

\* the tree coarsen() returns for a valid linear octree
CoarsenValid ==
  CoarsenCase =>
    /\ IsMortonSorted(ret_tree.elements)
    /\ IsLinearOctree(ret_tree.elements)
    /\ Len(ret_tree.elements)
         = Len(last.pre) - 7 * Cardinality(MergedFamilies(last.pre))
    /\ elements = last.pre

\* the call of coarsen() leaves the tree it is called on as it was
CoarsenKeepsSource ==
  (alive /\ last'.op = "coarsen" /\ ret_tree'.valid)
    => UNCHANGED <<elements, has_nodes, nodes, order>>

\* C22: coarsen() on a valid linear octree (Morton sorted, the cubes
\* partitioning the domain) returns a tree whose array is Morton sorted and
\* partitions the same domain and has size - 7*m entries, m the number of
\* merged families; the element array, the node array and the order of the
\* tree it is called on are unchanged.
C22_CoarsenKeepsValid == [](CoarsenValid) /\ [][CoarsenKeepsSource]_vars

\* coarsen() merged one family of a tree with nodes and left other entries
C22_Witness ==
  /\ CoarsenCase
  /\ has_nodes
  /\ Cardinality(MergedFamilies(last.pre)) = 1
  /\ Len(ret_tree.elements) = 8


\* C23: every findEnclosing call, on any element array (the empty one
\* included) and for any query, leaves the loop while (high != mid) after
\* finitely many turns and returns an element pointer or NULL.
C23_Terminates == (search.pc = "loop") ~> (search.pc = "idle")

\* the same for calls on arrays that hold an element: the call ends
C23_NonEmptyEnds ==
  (search.pc = "loop" /\ Len(elements) > 0)
    ~> (search.pc \in {"idle", "crash"})

\* a call that read inside the array only returns what findEnclosing gives
SearchAgrees ==
  (last.op = "findEnclosing"
     /\ findEnclosing(last.pre, last.oct).kind # "oob")
    => ret_find = findEnclosing(last.pre, last.oct)

====
